---- MODULE Spec2Model ----
(***************************************************************************)
(* Model of ledona/deep_compare.py: the recursive structural comparator    *)
(* (deep_compare, deep_compare_objs, deep_compare_ordered_collections,     *)
(* deep_compare_dicts) and the tabular comparator (compare_dataframes).    *)
(*                                                                         *)
(* The comparators are pure functions of their operands, their options and *)
(* the interpreter mode (__debug__).  Each is an operator computed the way *)
(* the code computes it; an action applies one entry point to the operands *)
(* drawn by Init and records what the call returned or raised.             *)
(*                                                                         *)
(* ledona/slack.py (the webhook sender and the notify decorator) and       *)
(* ledona/sqlalchemy.py (SQLAlchemyWrapper.session_scoped) are modelled    *)
(* with their own state below.                                             *)
(***************************************************************************)
EXTENDS Integers, Sequences, FiniteSets, TLC

VARIABLES
    debug,      \* __debug__: TRUE unless the interpreter runs optimized (-O)
    keyOrder,   \* the order in which this process iterates a set of names
    first,      \* first operand, as the caller passes it
    second,     \* second operand, as the caller passes it
    held,       \* the caller's two objects, as the call leaves them
    call,       \* the entry point applied and its options ("none" before)
    result,     \* what the call returned or raised
    enabled,    \* slack._ENABLED
    envUrl,     \* os.environ.get("LEDONA_SLACK_WEBHOOK_URL"), "None" if unset
    deco,       \* the arguments of slack.notify the function is decorated with
    flag,       \* local_enabled_flag of the decorated function
    posts,      \* the number of times requests.post was called
    sres,       \* what the last call into slack did
    sessions    \* the uses of SQLAlchemyWrapper.session_scoped

compareVars == <<first, second, held, call, result, keyOrder>>

slackVars == <<enabled, envUrl, deco, flag, posts, sres>>

sqlVars == <<sessions>>

vars == <<debug, keyOrder, first, second, held, call, result,
          enabled, envUrl, deco, flag, posts, sres, sessions>>

----------------------------------------------------------------------------
(* Bounds of the operand universe. *)

MaxVal == 2     \* scalars are 1..MaxVal
MaxLen == 2     \* flat lists hold at most MaxLen scalars
MaxRows == 2    \* tables hold at most MaxRows rows
MaxPosts == 2   \* requests.post is called at most MaxPosts times
MaxUses == 2    \* session_scoped is used at most MaxUses times
MaxStmts == 2   \* the body of a use executes at most MaxStmts statements

Names == {"a", "b"}     \* mapping keys and attribute names
ColNames == {"a", "b"}  \* column names of tables

----------------------------------------------------------------------------
(* Python values.  Every plain value is a record of one layout so that two *)
(* values of different shape can be compared for equality:                 *)
(*   scalar  an int (val)                                                  *)
(*   str     a one-character string (name), met when a dict is iterated    *)
(*   list    a list or tuple (items)                                       *)
(*   dict    a dict (map: key -> value)                                    *)
(*   obj     an instance with a __dict__ (map: attribute -> value)         *)

NoMap == [k \in {} |-> 0]

Sc(v) == [shape |-> "scalar", val |-> v, name |-> "", items |-> <<>>, map |-> NoMap]
Str(s) == [shape |-> "str", val |-> 0, name |-> s, items |-> <<>>, map |-> NoMap]
Lst(s) == [shape |-> "list", val |-> 0, name |-> "", items |-> s, map |-> NoMap]
Dct(m) == [shape |-> "dict", val |-> 0, name |-> "", items |-> <<>>, map |-> m]
Obj(m) == [shape |-> "obj", val |-> 0, name |-> "", items |-> <<>>, map |-> m]

(* float("nan"): the scalar that is not equal to itself. *)
NaN == [shape |-> "scalar", val |-> 0, name |-> "nan", items |-> <<>>, map |-> NoMap]

(* A DataFrame: column names in order, rows in order (each with its index  *)
(* label and its cells), the index's name ("None" when unnamed) and        *)
(* whether the index is a MultiIndex (index_name then stands for its       *)
(* names).                                                                 *)
Table(c, r, n, m) ==
    [shape |-> "df", columns |-> c, rows |-> r, index_name |-> n, multi |-> m]

Row(i, c) == [idx |-> i, cells |-> c]

(* An optional list of names (key_names, ignore_keys): None or a set. *)
NoneNames == [isNone |-> TRUE, keys |-> {}]
GivenNames(S) == [isNone |-> FALSE, keys |-> S]

(* An optional sequence of names (cols, attr_names): None or a list. *)
NoneSeq == [isNone |-> TRUE, seq |-> <<>>]
GivenSeq(s) == [isNone |-> FALSE, seq |-> s]

----------------------------------------------------------------------------
(* Helpers on sequences and sets. *)

Range(s) == {s[i] : i \in DOMAIN s}

SeqsUpTo(S, n) == UNION {[1..k -> S] : k \in 0..n}

Perms(S) == {s \in [1..Cardinality(S) -> S] : Range(s) = S}

(* The names of S in the order of sequence ord (ord lists every name). *)
InOrder(S, ord) == SelectSeq(ord, LAMBDA x : x \in S)

(* sorted(names): names in alphabetical order. *)
Alphabet == <<"INDEX", "a", "b", "c", "i">>

Sorted(S) == InOrder(S, Alphabet)

(* What a call produced: out is "True", "False" or the exception raised;   *)
(* err is the raised error's breadcrumb; mismatches are the keys recorded  *)
(* by deep_compare_dicts; work counts the inspections of the operands made *)
(* and cmps the item-level deep_compare calls made, before the call ended. *)
Ret(o, e, m, w, c) == [out |-> o, err |-> e, mismatches |-> m, work |-> w, cmps |-> c]

IsExc(r) == r.out \notin {"True", "False"}

(* The guard left out. *)
GuardOmitted(assert_tests) == FALSE

(* The guard every entry point starts with (lines 12, 73, 152, 180, 218). *)
StrictWithoutAssertions(assert_tests) == ~debug /\ assert_tests

----------------------------------------------------------------------------
(* pandas, as compare_dataframes uses it. *)

(* df[cols]: the columns named by list cols, in that order. *)
SelectCols(df, cols) ==
    [df EXCEPT !.columns = cols,
               !.rows = [i \in DOMAIN df.rows |->
                            Row(df.rows[i].idx,
                                [c \in Range(cols) |-> df.rows[i].cells[c]])]]

(* How sort_values resolves one label of by: a column label that is also  *)
(* the name of the index is ambiguous and raises ValueError; a label that  *)
(* is neither a column nor the name of the index raises KeyError, and so   *)
(* does None (an unnamed index level), which names nothing. *)
LabelError(df, label) ==
    IF label \in Range(df.columns)
    THEN IF label = df.index_name THEN "ValueError" ELSE "ok"
    ELSE IF label = df.index_name /\ label # "None" THEN "ok" ELSE "KeyError"

(* The error sort_values raises: that of the first label of by that does   *)
(* not resolve, "ok" if all do. *)
SortError(df, by) ==
    IF \A i \in DOMAIN by : LabelError(df, by[i]) = "ok" THEN "ok"
    ELSE LET i == CHOOSE j \in DOMAIN by :
                     /\ LabelError(df, by[j]) # "ok"
                     /\ \A k \in 1..(j - 1) : LabelError(df, by[k]) = "ok"
         IN  LabelError(df, by[i])

CanSort(df, by) == SortError(df, by) = "ok"

SortKey(df, row, by) ==
    [i \in DOMAIN by |->
        IF by[i] \in Range(df.columns) THEN row.cells[by[i]] ELSE row.idx]

LexLess(k1, k2) ==
    \E i \in DOMAIN k1 :
        /\ k1[i] < k2[i]
        /\ \A j \in 1..(i - 1) : k1[j] = k2[j]

(* row put after every row of the sorted rows whose key is not greater. *)
InsertRow(df, rows, row, by) ==
    LET n == Cardinality({i \in DOMAIN rows :
                 ~LexLess(SortKey(df, row, by), SortKey(df, rows[i], by))})
    IN  SubSeq(rows, 1, n) \o <<row>> \o SubSeq(rows, n + 1, Len(rows))

RECURSIVE SortRows(_, _, _)
SortRows(df, rows, by) ==
    IF rows = <<>> THEN <<>>
    ELSE InsertRow(df, SortRows(df, SubSeq(rows, 1, Len(rows) - 1), by),
                   rows[Len(rows)], by)

(* df.sort_values(by=by): a stable sort of the rows by the labels of by. *)
sort_values(df, by) == [df EXCEPT !.rows = SortRows(df, df.rows, by)]

(* df.reset_index(drop=True): a fresh unnamed 0..n-1 index. *)
reset_index(df) ==
    [df EXCEPT !.rows = [i \in DOMAIN df.rows |-> Row(i - 1, df.rows[i].cells)],
               !.index_name = "None",
               !.multi = FALSE]

(* pd.testing.assert_frame_equal(df1, df2, check_names=True) passes. *)
assert_frame_equal(df1, df2) ==
    /\ df1.columns = df2.columns
    /\ df1.multi = df2.multi
    /\ df1.index_name = df2.index_name
    /\ df1.rows = df2.rows

----------------------------------------------------------------------------
(* compare_dataframes(df1, df2, cols, msg, ignore_col_order,               *)
(*                    ignore_row_order, ignore_index, assert_tests)        *)

(* The result of compare_dataframes: renamed tells that the call assigned  *)
(* "INDEX" to the name of both operands' indices (lines 123-124).          *)
DfRet(o, e, w, rn) ==
    [out |-> o, err |-> e, mismatches |-> <<>>, work |-> w, cmps |-> 0, renamed |-> rn]

(* except AssertionError (lines 139-142). *)
DfFail(e, w, rn, assert_tests) ==
    DfRet(IF assert_tests THEN "AssertionError" ELSE "False", e, w, rn)

(* Lines 106-138, on the frames as the column step left them. *)
CompareRows(d1, d2, msg, ignore_row_order, ignore_index, assert_tests, w) ==
    LET rename == /\ ignore_row_order
                  /\ ~ignore_index
                  /\ ~d1.multi
                  /\ d1.index_name = "None"
        n1 == IF rename THEN [d1 EXCEPT !.index_name = "INDEX"] ELSE d1
        n2 == IF rename /\ ~d2.multi THEN [d2 EXCEPT !.index_name = "INDEX"] ELSE d2
        sort_by == IF ignore_index THEN Sorted(Range(d1.columns))
                   ELSE <<n1.index_name>> \o Sorted(Range(d1.columns))
        s1 == IF ignore_row_order THEN sort_values(n1, sort_by) ELSE n1
        s2 == IF ignore_row_order THEN sort_values(n2, sort_by) ELSE n2
        r1 == IF ignore_index THEN reset_index(s1) ELSE s1
        r2 == IF ignore_index THEN reset_index(s2) ELSE s2
    IN  IF debug /\ ~ignore_index /\ d1.multi # d2.multi
        THEN DfFail(<<"index type">>, w + 1, FALSE, assert_tests)
        ELSE IF debug /\ ~ignore_index /\ d1.index_name # d2.index_name
        THEN DfFail(<<"index name">>, w + 1, FALSE, assert_tests)
        ELSE IF ignore_row_order /\ ~CanSort(n1, sort_by)
        THEN DfRet(SortError(n1, sort_by), <<"sort_values">>, w + 2, rename)
        ELSE IF ignore_row_order /\ ~CanSort(n2, sort_by)
        THEN DfRet(SortError(n2, sort_by), <<"sort_values">>, w + 2, rename)
        ELSE IF assert_frame_equal(r1, r2)
        THEN DfRet("True", <<>>, w + 3, rename)
        ELSE DfFail(msg \o <<"dataframes">>, w + 3, rename, assert_tests)

(* The test of ignore_col_order inverted. *)
ColsRejectedInverted(cols, ignore_col_order) == ~cols.isNone /\ ignore_col_order

(* Lines 79-81: cols given while the column order is to be tested. *)
ColsRejected(cols, ignore_col_order) == ~cols.isNone /\ ~ignore_col_order

(* The columns left in the order they have. *)
KeepColumns(df) == df

(* Lines 103-104: df[sorted(df.columns)]. *)
SortColumns(df) == SelectCols(df, Sorted(Range(df.columns)))

(* Lines 79-104, then the rows. *)
CompareCols(df1, df2, cols, msg, ignore_col_order, ignore_row_order, ignore_index, assert_tests, w) ==
    IF ~cols.isNone
    THEN IF ColsRejected(cols, ignore_col_order)
         THEN DfRet("ValueError", <<"cols", "col order">>, w, FALSE)
         ELSE IF debug /\ ~(Range(cols.seq) \subseteq Range(df1.columns))
         THEN DfFail(<<"missing cols", "df1">>, w + 1, FALSE, assert_tests)
         ELSE IF debug /\ ~(Range(cols.seq) \subseteq Range(df2.columns))
         THEN DfFail(<<"missing cols", "df2">>, w + 1, FALSE, assert_tests)
         ELSE IF ~(Range(cols.seq) \subseteq Range(df1.columns))
                 \/ ~(Range(cols.seq) \subseteq Range(df2.columns))
         THEN DfRet("KeyError", <<"cols">>, w + 1, FALSE)
         ELSE CompareRows(SelectCols(df1, cols.seq), SelectCols(df2, cols.seq), msg,
                          ignore_row_order, ignore_index, assert_tests, w + 1)
    ELSE IF ~ignore_col_order
    THEN IF debug /\ df1.columns # df2.columns
         THEN DfFail(<<"col order">>, w + 1, FALSE, assert_tests)
         ELSE CompareRows(df1, df2, msg, ignore_row_order, ignore_index,
                          assert_tests, w + 1)
    ELSE IF debug /\ Range(df1.columns) # Range(df2.columns)
         THEN DfFail(<<"col names">>, w + 1, FALSE, assert_tests)
         ELSE CompareRows(SortColumns(df1), SortColumns(df2), msg,
                          ignore_row_order, ignore_index, assert_tests, w + 1)

compare_dataframes(df1, df2, cols, msg, ignore_col_order, ignore_row_order, ignore_index, assert_tests) ==
    IF StrictWithoutAssertions(assert_tests)
    THEN DfRet("ValueError", <<"optimized">>, 0, FALSE)
    ELSE IF df2.shape # "df"
    THEN IF debug
         THEN DfFail(<<"isinstance">>, 1, FALSE, assert_tests)
         ELSE IF ColsRejected(cols, ignore_col_order)
         THEN DfRet("ValueError", <<"cols", "col order">>, 0, FALSE)
         ELSE IF ~cols.isNone /\ ~(Range(cols.seq) \subseteq Range(df1.columns))
         THEN DfRet("KeyError", <<"cols">>, 1, FALSE)
         ELSE IF ~cols.isNone
         THEN DfRet("TypeError", <<"df2[cols]">>, 1, FALSE)
         ELSE DfRet("AttributeError", <<"df2">>, 1, FALSE)
    ELSE CompareCols(df1, df2, cols, msg, ignore_col_order, ignore_row_order,
                     ignore_index, assert_tests, IF debug THEN 1 ELSE 0)

----------------------------------------------------------------------------
(* Python built-ins on plain values. *)

(* hasattr(v, a), for the attribute names of instance dictionaries. *)
HasAttr(v, a) == v.shape = "obj" /\ a \in DOMAIN v.map

(* len(v) and iteration are defined: lists, dicts and strings. *)
Sized(v) == v.shape \in {"list", "dict", "str"}

(* list(v): a dict yields its keys, a one-character string itself. *)
ItemsOf(v) ==
    IF v.shape = "list" THEN v.items
    ELSE IF v.shape = "dict"
    THEN LET ks == InOrder(DOMAIN v.map, keyOrder)
         IN  [i \in DOMAIN ks |-> Str(ks[i])]
    ELSE IF v.shape = "str" THEN <<v>>
    ELSE <<>>

LenOf(v) == Len(ItemsOf(v))

Min(x, y) == IF x < y THEN x ELSE y

(* One entry of deep_compare_dicts' mismatches list (line 266). *)
Mismatch(k, v1, v2) == [key |-> k, val1 |-> v1, val2 |-> v2]

(* repr(v), as the words it holds: a list or a dict shows its items, an    *)
(* object of a class without __repr__ shows its class and address only. *)
RECURSIVE Repr(_)
RECURSIVE ReprItems(_, _)
RECURSIVE ReprPairs(_, _, _)
Repr(v) ==
    IF v.shape = "scalar" THEN <<IF v = NaN THEN "nan" ELSE ToString(v.val)>>
    ELSE IF v.shape = "str" THEN <<v.name>>
    ELSE IF v.shape = "list" THEN <<"[">> \o ReprItems(v.items, 1) \o <<"]">>
    ELSE IF v.shape = "dict"
    THEN <<"{">> \o ReprPairs(v.map, InOrder(DOMAIN v.map, keyOrder), 1) \o <<"}">>
    ELSE <<"<object>">>

ReprItems(items, i) ==
    IF i > Len(items) THEN <<>>
    ELSE Repr(items[i]) \o ReprItems(items, i + 1)

ReprPairs(map, keys, i) ==
    IF i > Len(keys) THEN <<>>
    ELSE <<keys[i]>> \o Repr(map[keys[i]]) \o ReprPairs(map, keys, i + 1)

(* Lines 269-271: a line per mismatch, with the key and both values. *)
RECURSIVE MismatchDetails(_, _)
MismatchDetails(mism, i) ==
    IF i > Len(mism) THEN <<>>
    ELSE <<mism[i].key>> \o Repr(mism[i].val1) \o Repr(mism[i].val2)
         \o MismatchDetails(mism, i + 1)

OptimizedError == Ret("ValueError", <<"optimized">>, <<>>, 0, 0)

(* except Exception in place of except AssertionError. *)
CaughtAny(r, assert_tests) ==
    IF IsExc(r) /\ ~assert_tests
    THEN [r EXCEPT !.out = "False", !.err = <<>>]
    ELSE r

(* except AssertionError: raise if assert_tests, else return False. *)
Caught(r, assert_tests) ==
    IF r.out = "AssertionError" /\ ~assert_tests
    THEN [r EXCEPT !.out = "False", !.err = <<>>]
    ELSE r

----------------------------------------------------------------------------
(* The structural comparator. *)

RECURSIVE deep_compare(_, _, _, _)
RECURSIVE deep_compare_objs(_, _, _, _, _)
RECURSIVE ObjsLoop(_, _, _, _, _, _, _)
RECURSIVE deep_compare_ordered_collections(_, _, _, _)
RECURSIVE ItemsLoop(_, _, _, _, _, _)
RECURSIVE deep_compare_dicts(_, _, _, _, _, _, _)
RECURSIVE KeysLoop(_, _, _, _, _, _, _, _)

(* The breadcrumb left out. *)
AttrMsgDropped(msg, a) == msg

(* Line 167: msg + f" >> obj1.{attr_name} != obj2.{attr_name}". *)
AttrMsg(msg, a) == msg \o <<">>", a>>

(* Lines 159-168: the attributes of seq from position i on. *)
ObjsLoop(obj1, obj2, seq, i, msg, w, c) ==
    IF i > Len(seq) THEN Ret("True", <<>>, <<>>, w, c)
    ELSE LET a == seq[i] IN
         IF debug /\ ~HasAttr(obj1, a)
         THEN Ret("AssertionError", msg \o <<"obj1", a>>, <<>>, w + 1, c)
         ELSE IF debug /\ ~HasAttr(obj2, a)
         THEN Ret("AssertionError", msg \o <<"obj2", a>>, <<>>, w + 1, c)
         ELSE IF ~HasAttr(obj1, a) \/ ~HasAttr(obj2, a)
         THEN Ret("AttributeError", <<a>>, <<>>, w + 1, c)
         ELSE LET r == deep_compare(obj1.map[a], obj2.map[a], AttrMsg(msg, a), TRUE)
              IN  IF IsExc(r)
                  THEN Ret(r.out, r.err, <<>>, w + 1 + r.work, c + 1 + r.cmps)
                  ELSE ObjsLoop(obj1, obj2, seq, i + 1, msg,
                                w + 1 + r.work, c + 1 + r.cmps)

(* The attributes of both objects compared. *)
deep_compare_objs_both(obj1, obj2, attr_names, msg, assert_tests) ==
    IF StrictWithoutAssertions(assert_tests) THEN OptimizedError
    ELSE IF attr_names.isNone /\ obj1.shape # "obj"
    THEN Ret("TypeError", <<"vars">>, <<>>, 1, 0)
    ELSE LET seq == IF attr_names.isNone
                    THEN InOrder(DOMAIN obj1.map \cup DOMAIN obj2.map, keyOrder)
                    ELSE attr_names.seq
         IN  Caught(ObjsLoop(obj1, obj2, seq, 1, msg, 0, 0), assert_tests)

(* Lines 152-175. *)
deep_compare_objs(obj1, obj2, attr_names, msg, assert_tests) ==
    IF StrictWithoutAssertions(assert_tests) THEN OptimizedError
    ELSE IF attr_names.isNone /\ obj1.shape # "obj"
    THEN Ret("TypeError", <<"vars">>, <<>>, 1, 0)
    ELSE LET seq == IF attr_names.isNone
                    THEN InOrder(DOMAIN obj1.map, keyOrder)
                    ELSE attr_names.seq
         IN  Caught(ObjsLoop(obj1, obj2, seq, 1, msg, 0, 0), assert_tests)

(* Lines 188-189: the pairs of zip(objs1, objs2) from position i on. *)
ItemsLoop(items1, items2, i, msg, w, c) ==
    IF i > Min(Len(items1), Len(items2)) THEN Ret("True", <<>>, <<>>, w, c)
    ELSE LET r == deep_compare(items1[i], items2[i],
                               msg \o <<"items", ToString(i - 1)>>, TRUE)
         IN  IF IsExc(r)
             THEN Ret(r.out, r.err, <<>>, w + r.work, c + 1 + r.cmps)
             ELSE ItemsLoop(items1, items2, i + 1, msg, w + r.work, c + 1 + r.cmps)

deep_compare_ordered_collections(objs1, objs2, msg, assert_tests) ==
    IF StrictWithoutAssertions(assert_tests) THEN OptimizedError
    ELSE IF ~Sized(objs1) \/ ~Sized(objs2)
    THEN Ret("TypeError", <<"len">>, <<>>, 1, 0)
    ELSE IF debug /\ LenOf(objs1) # LenOf(objs2)
    THEN Caught(Ret("AssertionError",
                    msg \o <<"lengths", ToString(LenOf(objs1)), ToString(LenOf(objs2))>>,
                    <<>>, 1, 0),
                assert_tests)
    ELSE Caught(ItemsLoop(ItemsOf(objs1), ItemsOf(objs2), 1, msg,
                          IF debug THEN 1 ELSE 0, 0),
                assert_tests)

(* Lines 258-274: the keys of seq from position i on, then the raise of    *)
(* the aggregated error if any mismatch was recorded.                      *)
KeysLoop(dict1, dict2, seq, i, msg, mism, w, c) ==
    IF i > Len(seq)
    THEN IF mism = <<>> THEN Ret("True", <<>>, mism, w, c)
         ELSE Ret("AssertionError",
                  msg \o <<"mismatched">> \o MismatchDetails(mism, 1),
                  mism, w, c)
    ELSE LET k == seq[i] IN
         IF debug /\ k \notin DOMAIN dict1.map
         THEN Ret("AssertionError", msg \o <<"not in dict1", k>>, mism, w + 1, c)
         ELSE IF debug /\ k \notin DOMAIN dict2.map
         THEN Ret("AssertionError", msg \o <<"not in dict2", k>>, mism, w + 1, c)
         ELSE IF k \notin DOMAIN dict1.map
         THEN Ret("KeyError", <<k>>, mism, w + 1, c)
         ELSE IF dict2.shape # "dict"
         THEN Ret("TypeError", <<"dict2[key]">>, mism, w + 1, c)
         ELSE IF k \notin DOMAIN dict2.map
         THEN Ret("KeyError", <<k>>, mism, w + 1, c)
         ELSE LET r == deep_compare(dict1.map[k], dict2.map[k], <<>>, FALSE)
              IN  IF IsExc(r)
                  THEN Ret(r.out, r.err, mism, w + 1 + r.work, c + 1 + r.cmps)
                  ELSE KeysLoop(dict1, dict2, seq, i + 1, msg,
                                IF r.out = "False"
                                THEN Append(mism, Mismatch(k, dict1.map[k], dict2.map[k]))
                                ELSE mism,
                                w + 1 + r.work, c + 1 + r.cmps)

(* No key discarded. *)
DiscardNothing(keys, ignore_keys) == keys

(* Lines 247-250: the keys left once those of ignore_keys are discarded. *)
Discard(keys, ignore_keys) == keys \ ignore_keys.keys

(* Lines 228-274: the try block. *)
DictsBody(dict1, dict2, msg, key_names, minimal_key_test, ignore_keys, w) ==
    LET d2keys == IF dict2.shape = "dict" THEN DOMAIN dict2.map ELSE {}
    IN
    IF minimal_key_test
    THEN IF ~ignore_keys.isNone
         THEN Ret("ValueError", <<"ignore_keys", "minimal_key_test">>, <<>>, w, 0)
         ELSE LET key_names_set == IF key_names.isNone THEN DOMAIN dict1.map
                                   ELSE key_names.keys
              IN  IF debug /\ ~(key_names_set \subseteq DOMAIN dict1.map)
                  THEN Ret("AssertionError", msg \o <<"dict1 does not have keys">>,
                           <<>>, w + 1, 0)
                  ELSE IF debug /\ ~(key_names_set \subseteq d2keys)
                  THEN Ret("AssertionError", msg \o <<"dict2 does not have keys">>,
                           <<>>, w + 1, 0)
                  ELSE KeysLoop(dict1, dict2, InOrder(key_names_set, keyOrder),
                                1, msg, <<>>, w + (IF debug THEN 1 ELSE 0), 0)
    ELSE IF ~key_names.isNone
    THEN Ret("ValueError", <<"key_names", "minimal_key_test">>, <<>>, w, 0)
    ELSE IF dict2.shape # "dict"
    THEN Ret("AttributeError", <<"keys">>, <<>>, w + 1, 0)
    ELSE LET key_names_set == Discard(DOMAIN dict1.map, ignore_keys)
             d2_keys == Discard(d2keys, ignore_keys)
         IN  IF debug /\ key_names_set # d2_keys
             THEN Ret("AssertionError", msg \o <<"dict keys don't match">>,
                      <<>>, w + 1, 0)
             ELSE KeysLoop(dict1, dict2, InOrder(key_names_set, keyOrder),
                           1, msg, <<>>, w + 1, 0)

(* Lines 218-280: the guard, the two isinstance assertions (outside the    *)
(* try block), then the try block under except AssertionError. *)
deep_compare_dicts(dict1, dict2, msg, assert_tests, key_names, minimal_key_test, ignore_keys) ==
    IF StrictWithoutAssertions(assert_tests) THEN OptimizedError
    ELSE IF debug /\ dict1.shape # "dict"
    THEN Ret("AssertionError", <<"dict1 should be a dict">>, <<>>, 1, 0)
    ELSE IF debug /\ dict2.shape # "dict"
    THEN Ret("AssertionError", <<"dict2 should be a dict">>, <<>>, 1, 0)
    ELSE Caught(DictsBody(dict1, dict2, msg \o <<"::">>, key_names,
                          minimal_key_test, ignore_keys, IF debug THEN 1 ELSE 0),
                assert_tests)

(* first == second, on scalars. *)
PyEq(a, b) == a = b /\ a # NaN

(* Lines 34-39: the scalar fallback. *)
CompareScalars(a, b, msg, assert_tests) ==
    IF ~debug THEN Ret("True", <<>>, <<>>, 1, 0)
    ELSE IF PyEq(a, b) THEN Ret("True", <<>>, <<>>, 2, 0)
    ELSE Caught(Ret("AssertionError", msg \o <<"::", "!=">>, <<>>, 2, 0), assert_tests)

(* Lines 31-32, 41: the value deep_compare_ordered_collections returns is  *)
(* dropped and True returned. *)
CompareLists(a, b, msg, assert_tests) ==
    LET r == deep_compare_ordered_collections(a, b, msg, assert_tests)
    IN  IF IsExc(r) THEN r ELSE [r EXCEPT !.out = "True"]

deep_compare(a, b, msg, assert_tests) ==
    IF StrictWithoutAssertions(assert_tests) THEN OptimizedError
    ELSE LET r ==
             IF a.shape = "df"
             THEN compare_dataframes(a, b, NoneSeq, msg, FALSE, TRUE, FALSE, assert_tests)
             ELSE IF a.shape = "obj"
             THEN deep_compare_objs(a, b, NoneSeq, msg, assert_tests)
             ELSE IF a.shape = "dict"
             THEN deep_compare_dicts(a, b, msg, assert_tests, NoneNames, FALSE, NoneNames)
             ELSE IF a.shape = "list"
             THEN CompareLists(a, b, msg, assert_tests)
             ELSE CompareScalars(a, b, msg, assert_tests)
         IN  [r EXCEPT !.work = @ + 1]

----------------------------------------------------------------------------
(* slack.py: the webhook sender and the notify decorator. *)

(* A text argument: None, or the words of a string. *)
NoText == [isNone |-> TRUE, words |-> <<>>]
Text(w) == [isNone |-> FALSE, words |-> w]

(* A payload argument: None, or a dict with the fields of F, words being   *)
(* the words of its "text" field if it has one. *)
NoPayload == [isNone |-> TRUE, fields |-> {}, words |-> <<>>]
Payload(F, w) == [isNone |-> FALSE, fields |-> F, words |-> w]

(* A msg of send_slack: a string, or a dict. *)
StrMsg(w) == [kind |-> "str", fields |-> {}, words |-> w]
DictMsg(F, w) == [kind |-> "dict", fields |-> F, words |-> w]

(* One call of requests.post (line 75): the URL and the JSON body, as the  *)
(* fields it has and the words of its "text" field. *)
Post(url, fields, words) == [url |-> url, fields |-> fields, words |-> words]

(* The status codes a response comes with. *)
Statuses == {"200", "500"}

(* webhook(url, payload, text, attachments), lines 58-75, with en the      *)
(* value of is_enabled() and status the status code of the response:       *)
(* what it returns or raises and the posts it makes.  The test of line 72  *)
(* never holds: dict_ is a non-empty payload or has a "text" field. *)
webhook(en, url, payload, text, attachments, status) ==
    IF ~en THEN [out |-> "disabled", sent |-> <<>>]
    ELSE IF ~payload.isNone /\ payload.fields # {}
    THEN IF ~text.isNone /\ attachments
         THEN [out |-> "SlackNotifyError", sent |-> <<>>]
         ELSE [out |-> status, sent |-> <<Post(url, payload.fields, payload.words)>>]
    ELSE IF text.isNone
    THEN [out |-> "SlackNotifyError", sent |-> <<>>]
    ELSE [out |-> status,
          sent |-> <<Post(url,
                          {"text"} \cup (IF attachments THEN {"attachments"} ELSE {}),
                          text.words)>>]

(* disable() not called. *)
StaysEnabled(en) == en

(* disable(), lines 42-45: the value it leaves in _ENABLED, en being the   *)
(* value before. *)
AfterDisable(en) == FALSE

(* What send_slack did: out is "None" or the exception raised, enabled the *)
(* value it leaves in _ENABLED, sent the posts made, warned whether        *)
(* warnings.warn was called. *)
Sent(o, e, s, w) == [out |-> o, enabled |-> e, sent |-> s, warned |-> w]

(* The url argument dropped. *)
EnvOnly(webhook_url, env) == env

(* Line 93: webhook_url or os.environ.get(_WEBHOOK_ENV_VAR_NAME). *)
UrlOf(webhook_url, env) == IF webhook_url # "None" THEN webhook_url ELSE env

(* send_slack(msg, webhook_url, include_hostname, raise_on_http_error),    *)
(* lines 91-121, with en the value of _ENABLED and env that of the         *)
(* environment variable. *)
send_slack(en, env, msg, webhook_url, include_hostname, raise_on_http_error, status) ==
    LET url == UrlOf(webhook_url, env)
        host == IF include_hostname THEN <<"[host]">> ELSE <<>>
        r == IF msg.kind = "str"
             THEN webhook(en, url, NoPayload, Text(host \o msg.words), FALSE, status)
             ELSE IF ~include_hostname
             THEN webhook(en, url, Payload(msg.fields, msg.words), NoText, FALSE, status)
             ELSE webhook(en, url,
                          Payload(msg.fields \cup {"text"},
                                  host \o (IF "text" \in msg.fields THEN msg.words
                                           ELSE <<>>)),
                          NoText, FALSE, status)
    IN  IF ~en THEN Sent("None", en, <<>>, FALSE)
        ELSE IF url = "None" THEN Sent("None", AfterDisable(en), <<>>, TRUE)
        ELSE IF r.out = "SlackNotifyError" THEN Sent("SlackNotifyError", en, <<>>, FALSE)
        ELSE IF r.out = "200" THEN Sent("None", en, r.sent, FALSE)
        ELSE IF raise_on_http_error THEN Sent("SlackNotifyError", en, r.sent, FALSE)
        ELSE Sent("None", en, r.sent, TRUE)

(* The arguments of notify; set tells that a function is decorated. *)
NoDeco ==
    [set |-> FALSE, webhook_url |-> "None", raise_on_http_error |-> FALSE,
     on_entrance |-> TRUE, on_exit |-> TRUE]

(* _default_slack_msg_func(stage, ...): a string that names the stage. *)
default_slack_msg_func(stage) == StrMsg(<<stage>>)

(* The entrance message sent only if on_entrance. *)
EntranceIfAsked(d) == d.on_entrance

(* Lines 215-217: the entrance message is sent whatever on_entrance is. *)
SendsEntrance(d) == TRUE

(* The override left in place after the call. *)
FlagKept(fl) == fl

(* Line 210: local_enabled_flag = None, fl being the value before. *)
FlagAfterCall(fl) == "None"

(* What wrapper_notify did: out is "returned", "raised" (the exception of  *)
(* the function) or the exception of the decorator, runs the number of     *)
(* times the function was called, stages the stages msg_func was called    *)
(* with, sent the posts made, got the arguments the function was called    *)
(* with, ret the value returned to the caller ("None" if none). *)
Wrapped(o, e, n, st, s) ==
    [out |-> o, enabled |-> e, runs |-> n, stages |-> st, sent |-> s,
     got |-> <<>>, ret |-> "None"]

(* The decorated function: it returns the successor of its argument, or    *)
(* raises. *)
func(a) == a + 1

(* Lines 213, 222, 240: func called with the caller's arguments, and its   *)
(* value returned unless it raised. *)
Ran(w, a, raises) ==
    [w EXCEPT !.got = <<a>>, !.ret = IF raises THEN "None" ELSE func(a)]

(* The exit message built for stage "end" whatever happened. *)
AlwaysEnd(raises) == "end"

(* Line 229: state = "end" if func_exception is None else "fail". *)
ExitStage(raises) == IF raises THEN "fail" ELSE "end"

(* wrapper_notify, lines 205-240, of a function decorated by notify with  *)
(* the arguments d: en and fl are _ENABLED and local_enabled_flag at the   *)
(* call, env is the value of the environment variable,                     *)
(* a is the caller's argument, raises tells whether the function raises,   *)
(* st1 and st2 are the status codes of the responses. *)
wrapper_notify(en, env, fl, d, a, raises, st1, st2) ==
    LET dont_slack == (~en /\ fl # "True") \/ fl = "False"
        outcome == IF raises THEN "raised" ELSE "returned"
        s1 == IF SendsEntrance(d)
              THEN send_slack(en, env, default_slack_msg_func("start"), d.webhook_url,
                              TRUE, d.raise_on_http_error, st1)
              ELSE Sent("None", en, <<>>, FALSE)
        state == ExitStage(raises)
        s2 == send_slack(s1.enabled, env, default_slack_msg_func(state), "None",
                         TRUE, FALSE, st2)
    IN  IF dont_slack THEN Ran(Wrapped(outcome, en, 1, <<>>, <<>>), a, raises)
        ELSE IF s1.out # "None"
        THEN Wrapped(s1.out, s1.enabled, 0, <<"start">>, s1.sent)
        ELSE IF d.on_exit
        THEN Ran(Wrapped(outcome, s2.enabled, 1, <<"start", state>>, s1.sent \o s2.sent),
                 a, raises)
        ELSE Ran(Wrapped(outcome, s1.enabled, 1, <<"start">>, s1.sent), a, raises)

(* What the last call into slack did, with the values of _ENABLED and of   *)
(* local_enabled_flag it found; arg and raises are the argument the        *)
(* decorated function was called with and whether the function raises. *)
SlackResult(op, args, r) ==
    [op |-> op, args |-> args, out |-> r.out, runs |-> r.runs, stages |-> r.stages,
     sent |-> r.sent, was |-> enabled, flagWas |-> flag,
     got |-> r.got, ret |-> r.ret, arg |-> 0, raises |-> FALSE]

Done(o) == Wrapped(o, enabled, 0, <<>>, <<>>)

NoSlackResult ==
    [op |-> "none", args |-> <<>>, out |-> "None", runs |-> 0, stages |-> <<>>,
     sent |-> <<>>, was |-> TRUE, flagWas |-> "None",
     got |-> <<>>, ret |-> "None", arg |-> 0, raises |-> FALSE]

(* The module as imported: enabled, nothing decorated, nothing posted. *)
SlackLoaded ==
    /\ enabled = TRUE
    /\ deco = NoDeco
    /\ flag = "None"
    /\ posts = 0
    /\ sres = NoSlackResult

----------------------------------------------------------------------------
(* sqlalchemy.py: SQLAlchemyWrapper.session_scoped (lines 121-143), a      *)
(* generator-based context manager.  A use of it is at one of the places   *)
(* "out" (not entered), "body" (suspended at the yield while the body of   *)
(* the with statement runs), "commit", "except", "finally" or "done"; ops  *)
(* are the operations made on its session so far, raised the exceptions    *)
(* raised so far, each named after what raised it, and pending the         *)
(* exception now propagating ("None" if none): the one the caller gets     *)
(* when the use is done. *)
Use(pc, ops, raised, pending) ==
    [pc |-> pc, ops |-> ops, raised |-> raised, pending |-> pending]

NoSessions == [i \in 1..MaxUses |-> Use("out", <<>>, <<>>, "None")]

(* A method of the session called, failing or not: control goes to the     *)
(* place next when it succeeds and to the place onFail when it raises. *)
SessionCall(u, op, fails, next, onFail) ==
    IF fails
    THEN Use(onFail, Append(u.ops, op), Append(u.raised, op), op)
    ELSE Use(next, Append(u.ops, op), u.raised, u.pending)

(* session = self.get_session(), then the yield. *)
Enter(i) ==
    /\ sessions[i].pc = "out"
    /\ sessions' = [sessions EXCEPT ![i] = Use("body", <<>>, <<>>, "None")]

(* The body of the with statement uses the session it was given. *)
Execute(i) ==
    /\ sessions[i].pc = "body"
    /\ Len(sessions[i].ops) < MaxStmts
    /\ sessions' = [sessions EXCEPT ![i].ops = Append(@, "execute")]

(* The body finishes: the generator resumes after the yield. *)
BodyReturns(i) ==
    /\ sessions[i].pc = "body"
    /\ sessions' = [sessions EXCEPT ![i].pc = "commit"]

(* The body raises: the exception is thrown into the generator at the      *)
(* yield, inside the try. *)
BodyRaises(i) ==
    /\ sessions[i].pc = "body"
    /\ sessions' = [sessions EXCEPT ![i] = Use("except", @.ops, Append(@.raised, "body"), "body")]

(* session.commit(), still inside the try. *)
Commit(i) ==
    /\ sessions[i].pc = "commit"
    /\ \E fails \in BOOLEAN :
        sessions' = [sessions EXCEPT
                        ![i] = SessionCall(@, "commit", fails, "finally", "except")]

(* The except clause left out. *)
RollbackSkipped(i) ==
    /\ sessions[i].pc = "except"
    /\ sessions' = [sessions EXCEPT ![i].pc = "finally"]

(* except: session.rollback(); raise.  The raise leaves the exception      *)
(* that was caught pending. *)
Rollback(i) ==
    /\ sessions[i].pc = "except"
    /\ \E fails \in BOOLEAN :
        sessions' = [sessions EXCEPT
                        ![i] = SessionCall(@, "rollback", fails, "finally", "finally")]

(* finally: session.close(). *)
Close(i) ==
    /\ sessions[i].pc = "finally"
    /\ \E fails \in BOOLEAN :
        sessions' = [sessions EXCEPT
                        ![i] = SessionCall(@, "close", fails, "done", "done")]

UseEnters == \E i \in 1..MaxUses : Enter(i) /\ UNCHANGED <<debug, compareVars, slackVars>>

UseExecutes == \E i \in 1..MaxUses : Execute(i) /\ UNCHANGED <<debug, compareVars, slackVars>>

UseBodyReturns == \E i \in 1..MaxUses : BodyReturns(i) /\ UNCHANGED <<debug, compareVars, slackVars>>

UseBodyRaises == \E i \in 1..MaxUses : BodyRaises(i) /\ UNCHANGED <<debug, compareVars, slackVars>>

UseCommits == \E i \in 1..MaxUses : Commit(i) /\ UNCHANGED <<debug, compareVars, slackVars>>

UseRollsBack == \E i \in 1..MaxUses : Rollback(i) /\ UNCHANGED <<debug, compareVars, slackVars>>

UseCloses == \E i \in 1..MaxUses : Close(i) /\ UNCHANGED <<debug, compareVars, slackVars>>

----------------------------------------------------------------------------
(* The operands the calls are made on. *)

Scalars == {Sc(v) : v \in 1..MaxVal}

Maps(E) == UNION {[K -> E] : K \in SUBSET Names}

FlatLists == {Lst(s) : s \in SeqsUpTo(Scalars, MaxLen)}
FlatDicts == {Dct(m) : m \in Maps(Scalars)}
FlatObjs == {Obj(m) : m \in Maps(Scalars)}

(* Containers of one scalar, and containers of one such container. *)
Single(e) == {Lst(<<e>>), Dct([k \in {"a"} |-> e]), Obj([k \in {"a"} |-> e])}
Singles == UNION {Single(e) : e \in Scalars}
Nested ==
    UNION {Single(e) : e \in Singles}
    \cup {Obj([k \in {"a"} |-> Obj([j \in {"b"} |-> e])]) : e \in Scalars}
    \cup {Dct([k \in {"a"} |-> Obj([j \in {"b"} |-> e])]) : e \in Scalars}

Plain == Scalars \cup {NaN} \cup FlatLists \cup FlatDicts \cup FlatObjs \cup Nested

(* The caller's msg. *)
Msg == <<"msg">>

NoCall ==
    [op |-> "none", assert_tests |-> FALSE, attr_names |-> NoneSeq,
     key_names |-> NoneNames, minimal_key_test |-> FALSE, ignore_keys |-> NoneNames,
     cols |-> NoneSeq, ignore_col_order |-> FALSE, ignore_row_order |-> TRUE,
     ignore_index |-> FALSE]

NoResult == Ret("none", <<>>, <<>>, 0, 0)

(* The interpreter starts in either mode, with an iteration order of name  *)
(* sets among Orders, and the caller holds a pair of operands of Pairs. *)
InitWith(Pairs, Orders) ==
    /\ debug \in BOOLEAN
    /\ keyOrder \in Orders
    /\ \E p \in Pairs : first = p[1] /\ second = p[2]
    /\ held = <<first, second>>
    /\ call = NoCall
    /\ result = NoResult
    /\ SlackLoaded
    /\ envUrl = "None"
    /\ sessions = NoSessions

(* Lines 123-124: df.index.name = "INDEX" on a plain index (a multi-part   *)
(* index keeps the names of its levels). *)
Renamed(df) ==
    IF df.shape = "df" /\ ~df.multi THEN [df EXCEPT !.index_name = "INDEX"] ELSE df

(* The caller's tables after compare_dataframes returned or raised r.  The *)
(* assignment of lines 123-124 is made through df1.index and df2.index: on *)
(* the caller's own tables when df1 and df2 were not rebound (reselected   *)
(* false), and on the tables df1[cols] or df1[sorted(df1.columns)] made at *)
(* lines 90-91 and 103-104 otherwise, whose index is the caller's index    *)
(* object or a copy of it, as the installed pandas has it. *)
HeldAfter(df1, df2, r, reselected) ==
    IF ~r.renamed THEN {<<df1, df2>>}
    ELSE IF reselected THEN {<<df1, df2>>, <<Renamed(df1), Renamed(df2)>>}
    ELSE {<<Renamed(df1), Renamed(df2)>>}

----------------------------------------------------------------------------
(* The entry points, each applied once to the operands. *)

DeepCompare ==
    /\ call.op = "none"
    /\ \E at \in BOOLEAN :
        /\ call' = [NoCall EXCEPT !.op = "deep_compare", !.assert_tests = at]
        /\ result' = deep_compare(first, second, Msg, at)
        /\ held' \in IF first.shape = "df" /\ ~StrictWithoutAssertions(at)
                     THEN HeldAfter(first, second, result', FALSE)
                     ELSE {held}
    /\ UNCHANGED <<debug, keyOrder, first, second>>
    /\ UNCHANGED slackVars
    /\ UNCHANGED sqlVars

AttrLists == {NoneSeq, GivenSeq(<<"a">>), GivenSeq(<<"b", "a">>)}

DeepCompareObjs ==
    /\ call.op = "none"
    /\ first.shape = "obj"
    /\ \E at \in BOOLEAN, an \in AttrLists :
        /\ call' = [NoCall EXCEPT !.op = "deep_compare_objs", !.assert_tests = at,
                                  !.attr_names = an]
        /\ result' = deep_compare_objs(first, second, an, Msg, at)
    /\ UNCHANGED <<debug, keyOrder, first, second, held>>
    /\ UNCHANGED slackVars
    /\ UNCHANGED sqlVars

DeepCompareOrderedCollections ==
    /\ call.op = "none"
    /\ first.shape = "list"
    /\ \E at \in BOOLEAN :
        /\ call' = [NoCall EXCEPT !.op = "deep_compare_ordered_collections",
                                  !.assert_tests = at]
        /\ result' = deep_compare_ordered_collections(first, second, Msg, at)
    /\ UNCHANGED <<debug, keyOrder, first, second, held>>
    /\ UNCHANGED slackVars
    /\ UNCHANGED sqlVars

(* Option values the calls of deep_compare_dicts draw from: the subset     *)
(* policy with and without key_names, the exact policy with and without    *)
(* ignore_keys, and the two combinations the code rejects. *)
DictOptions ==
    {[key_names |-> kn, minimal_key_test |-> TRUE, ignore_keys |-> NoneNames] :
        kn \in {NoneNames, GivenNames({"a"}), GivenNames({"a", "b"})}}
    \cup
    {[key_names |-> NoneNames, minimal_key_test |-> FALSE, ignore_keys |-> ik] :
        ik \in {NoneNames, GivenNames({}), GivenNames({"a"}), GivenNames({"b"}),
                GivenNames({"a", "b"})}}
    \cup
    {[key_names |-> NoneNames, minimal_key_test |-> TRUE, ignore_keys |-> GivenNames({"a"})],
     [key_names |-> GivenNames({"a"}), minimal_key_test |-> FALSE, ignore_keys |-> NoneNames]}

DeepCompareDicts ==
    /\ call.op = "none"
    /\ first.shape = "dict"
    /\ \E at \in BOOLEAN, o \in DictOptions :
        /\ call' = [NoCall EXCEPT !.op = "deep_compare_dicts", !.assert_tests = at,
                                  !.key_names = o.key_names,
                                  !.minimal_key_test = o.minimal_key_test,
                                  !.ignore_keys = o.ignore_keys]
        /\ result' = deep_compare_dicts(first, second, Msg, at, o.key_names,
                                        o.minimal_key_test, o.ignore_keys)
    /\ UNCHANGED <<debug, keyOrder, first, second, held>>
    /\ UNCHANGED slackVars
    /\ UNCHANGED sqlVars

ColLists == {NoneSeq, GivenSeq(<<"a">>)}

CompareDataframes ==
    /\ call.op = "none"
    /\ first.shape = "df"
    /\ \E at \in BOOLEAN, cols \in ColLists, ico \in BOOLEAN, iro \in BOOLEAN,
          ii \in BOOLEAN :
        /\ call' = [NoCall EXCEPT !.op = "compare_dataframes", !.assert_tests = at,
                                  !.cols = cols, !.ignore_col_order = ico,
                                  !.ignore_row_order = iro, !.ignore_index = ii]
        /\ result' = compare_dataframes(first, second, cols, Msg, ico, iro, ii, at)
        /\ held' \in HeldAfter(first, second, result', ~cols.isNone \/ ico)
    /\ UNCHANGED <<debug, keyOrder, first, second>>
    /\ UNCHANGED slackVars
    /\ UNCHANGED sqlVars

----------------------------------------------------------------------------
(* The calls into slack. *)

(* notify(webhook_url=u, raise_on_http_error=roe, on_entrance=oe,          *)
(* on_exit=ox) applied to a function (lines 195-245). *)
Notify ==
    /\ ~deco.set
    /\ \E u \in {"None", "U"}, roe \in BOOLEAN, oe \in BOOLEAN, ox \in BOOLEAN :
        LET d == [set |-> TRUE, webhook_url |-> u, raise_on_http_error |-> roe,
                  on_entrance |-> oe, on_exit |-> ox]
        IN  IF debug /\ ~(oe \/ ox)
            THEN /\ sres' = SlackResult("notify", d, Done("AssertionError"))
                 /\ UNCHANGED <<deco, flag>>
            ELSE /\ sres' = SlackResult("notify", d, Done("None"))
                 /\ deco' = d
                 /\ flag' = "None"
    /\ UNCHANGED <<debug, enabled, envUrl, posts>>
    /\ UNCHANGED compareVars
    /\ UNCHANGED sqlVars

(* The arguments the decorated function is called with. *)
CallerArgs == {1, 2}

(* One call of the decorated function. *)
CallWrapped ==
    /\ deco.set
    /\ \E a \in CallerArgs, raises \in BOOLEAN, st1 \in Statuses, st2 \in Statuses :
        LET r == wrapper_notify(enabled, envUrl, flag, deco, a, raises, st1, st2)
        IN  /\ posts + Len(r.sent) <= MaxPosts
            /\ sres' = [SlackResult("wrapper_notify", deco, r)
                            EXCEPT !.arg = a, !.raises = raises]
            /\ enabled' = r.enabled
            /\ flag' = FlagAfterCall(flag)
            /\ posts' = posts + Len(r.sent)
    /\ UNCHANGED <<debug, envUrl, deco>>
    /\ UNCHANGED compareVars
    /\ UNCHANGED sqlVars

(* slack_set_enabled(enable_) of the decorated function (lines 200-202). *)
SlackSetEnabled ==
    /\ deco.set
    /\ \E v \in {"None", "True", "False"} :
        /\ flag' = v
        /\ sres' = SlackResult("slack_set_enabled", v, Done("None"))
    /\ UNCHANGED <<debug, enabled, envUrl, deco, posts>>
    /\ UNCHANGED compareVars
    /\ UNCHANGED sqlVars

(* enable() (lines 33-39). *)
Enable ==
    /\ enabled' = TRUE
    /\ sres' = SlackResult("enable", <<>>, Done("None"))
    /\ UNCHANGED <<debug, envUrl, deco, flag, posts>>
    /\ UNCHANGED compareVars
    /\ UNCHANGED sqlVars

(* disable() (lines 42-45). *)
Disable ==
    /\ enabled' = AfterDisable(enabled)
    /\ sres' = SlackResult("disable", <<>>, Done("None"))
    /\ UNCHANGED <<debug, envUrl, deco, flag, posts>>
    /\ UNCHANGED compareVars
    /\ UNCHANGED sqlVars

(* The msg values send_slack is called with. *)
Msgs == {StrMsg(<<"t">>), DictMsg({}, <<>>), DictMsg({"blocks"}, <<>>),
         DictMsg({"text"}, <<"t">>)}

(* raise_on_http_error and the status code of the response: the argument   *)
(* is read only when the status code is not 200. *)
Responses == {<<FALSE, "200">>, <<FALSE, "500">>, <<TRUE, "500">>}

SendSlack ==
    /\ \E msg \in Msgs, u \in {"None", "U"}, ih \in BOOLEAN, rs \in Responses :
        LET r == send_slack(enabled, envUrl, msg, u, ih, rs[1], rs[2])
            args == [msg |-> msg, webhook_url |-> u, include_hostname |-> ih,
                     raise_on_http_error |-> rs[1]]
        IN  /\ posts + Len(r.sent) <= MaxPosts
            /\ sres' = SlackResult("send_slack", args,
                                   Wrapped(r.out, r.enabled, 0, <<>>, r.sent))
            /\ enabled' = r.enabled
            /\ posts' = posts + Len(r.sent)
    /\ UNCHANGED <<debug, envUrl, deco, flag>>
    /\ UNCHANGED compareVars
    /\ UNCHANGED sqlVars

(* The payload values webhook is called with. *)
Payloads == {NoPayload, Payload({}, <<>>), Payload({"blocks"}, <<>>)}

Webhook ==
    /\ \E pl \in Payloads, tx \in {NoText, Text(<<"t">>)}, at \in BOOLEAN,
          st \in Statuses :
        LET r == webhook(enabled, "U", pl, tx, at, st)
            args == [payload |-> pl, text |-> tx, attachments |-> at]
        IN  /\ posts + Len(r.sent) <= MaxPosts
            /\ sres' = SlackResult("webhook", args,
                                   Wrapped(r.out, enabled, 0, <<>>, r.sent))
            /\ posts' = posts + Len(r.sent)
    /\ UNCHANGED <<debug, enabled, envUrl, deco, flag>>
    /\ UNCHANGED compareVars
    /\ UNCHANGED sqlVars

----------------------------------------------------------------------------
(* Mappings whose values have every shape, for deep_compare_dicts. *)

DictVals ==
    Scalars \cup {Lst(<<Sc(1)>>), Lst(<<Sc(2)>>)} \cup
    {Dct([k \in {"a"} |-> Sc(1)]), Obj([k \in {"a"} |-> Sc(1)])}

MixedDicts == {Dct(m) : m \in Maps(DictVals)}

DictPairs == MixedDicts \X (MixedDicts \cup {Sc(1), Lst(<<>>)})

----------------------------------------------------------------------------
(* Tables, for compare_dataframes: two columns, rows with an index label,  *)
(* a named or unnamed, plain or multi-part index (IdxNames: no name, a     *)
(* name of its own, the name of a column); and for each table the          *)
(* tables that differ from it in one respect. *)

IdxLabels == {0, 1}

IdxNames == {"None", "i", "a"}

CellMaps == {[a |-> 1, b |-> 2], [a |-> 2, b |-> 1]}

TableRows == {Row(i, c) : i \in IdxLabels, c \in CellMaps}

TablesOf(n) ==
    {Table(<<"a", "b">>, r, nm, m) :
        r \in SeqsUpTo(TableRows, n), nm \in IdxNames, m \in BOOLEAN}

(* The rows of df in the order p (a permutation of their positions). *)
PermuteRows(df, p) == [df EXCEPT !.rows = [i \in DOMAIN p |-> df.rows[p[i]]]]

RowPermutations(df) == {PermuteRows(df, p) : p \in Perms(DOMAIN df.rows)}

(* The columns of df in the order p (a permutation of its column names). *)
ColPermutations(df) == {SelectCols(df, p) : p \in Perms(Range(df.columns))}

(* The same data under another index: every label replaced, another name,  *)
(* plain or multi-part. *)
Reindexed(df) ==
    {[df EXCEPT !.rows = [i \in DOMAIN df.rows |->
                             Row(IF flip THEN 1 - df.rows[i].idx ELSE df.rows[i].idx,
                                 df.rows[i].cells)],
                !.index_name = nm, !.multi = m] :
        flip \in BOOLEAN, nm \in IdxNames, m \in BOOLEAN}

(* df with the cells of its first row replaced. *)
Recelled(df) ==
    IF df.rows = <<>> THEN {df}
    ELSE {[df EXCEPT !.rows[1].cells = c] : c \in CellMaps}

Variants(df) ==
    RowPermutations(df) \cup ColPermutations(df) \cup Reindexed(df) \cup Recelled(df)
    \cup {SelectCols(df, <<"a">>)}
    \cup {[df EXCEPT !.rows = SubSeq(@, 1, Len(@) - 1)]}
    \cup {Sc(1)}

FramePairsOf(n) == UNION {{<<t, v>> : v \in Variants(t)} : t \in TablesOf(n)}

----------------------------------------------------------------------------
(* Specifications.  Spec applies every entry point; SpecDicts applies      *)
(* deep_compare_dicts to mappings of mixed values; SpecFrames applies      *)
(* compare_dataframes to tables of up to MaxRows rows. *)

Init == InitWith((Plain \X Plain) \cup FramePairsOf(1), Perms(Names))

Next ==
    \/ DeepCompare
    \/ DeepCompareObjs
    \/ DeepCompareOrderedCollections
    \/ DeepCompareDicts
    \/ CompareDataframes

Spec == Init /\ [][Next]_vars

InitDicts == InitWith(DictPairs, Perms(Names))

NextDicts == DeepCompareDicts

SpecDicts == InitDicts /\ [][NextDicts]_vars

(* compare_dataframes iterates no set of names. *)
InitFrames == InitWith(FramePairsOf(MaxRows), {<<"a", "b">>})

NextFrames == CompareDataframes

SpecFrames == InitFrames /\ [][NextFrames]_vars

(* The interpreter starts in either mode with slack imported and the       *)
(* environment variable set or not. *)
InitSlack ==
    /\ debug \in BOOLEAN
    /\ keyOrder = <<"a", "b">>
    /\ first = Sc(1)
    /\ second = Sc(1)
    /\ held = <<first, second>>
    /\ call = NoCall
    /\ result = NoResult
    /\ SlackLoaded
    /\ envUrl \in {"None", "E"}
    /\ sessions = NoSessions

NextSlack ==
    \/ Notify
    \/ CallWrapped
    \/ SlackSetEnabled
    \/ Enable
    \/ Disable
    \/ SendSlack
    \/ Webhook

SpecSlack == InitSlack /\ [][NextSlack]_vars

(* The uses of session_scoped, each with a session of its own, interleave  *)
(* (nested with statements, or threads). *)
InitSql ==
    /\ debug \in BOOLEAN
    /\ keyOrder = <<"a", "b">>
    /\ first = Sc(1)
    /\ second = Sc(1)
    /\ held = <<first, second>>
    /\ call = NoCall
    /\ result = NoResult
    /\ SlackLoaded
    /\ envUrl = "None"
    /\ sessions = NoSessions

NextSql ==
    \/ UseEnters
    \/ UseExecutes
    \/ UseBodyReturns
    \/ UseBodyRaises
    \/ UseCommits
    \/ UseRollsBack
    \/ UseCloses

SpecSql == InitSql /\ [][NextSql]_vars

----------------------------------------------------------------------------
(* Properties.                                                             *)

Called(op) == call.op = op

Returned == result.out \in {"True", "False"}

(* The call got past the strict-without-assertions guard. *)
GuardPassed == debug \/ ~call.assert_tests

(* Deep equality as the specification defines it (dispatch on the shape of *)
(* the first operand): the relation the comparator is to decide. *)
RECURSIVE DeepEqual(_, _)
DeepEqual(a, b) ==
    IF a.shape = "list"
    THEN /\ b.shape = "list"
         /\ Len(a.items) = Len(b.items)
         /\ \A i \in DOMAIN a.items : DeepEqual(a.items[i], b.items[i])
    ELSE IF a.shape = "dict"
    THEN /\ b.shape = "dict"
         /\ DOMAIN a.map = DOMAIN b.map
         /\ \A k \in DOMAIN a.map : DeepEqual(a.map[k], b.map[k])
    ELSE IF a.shape = "obj"
    THEN /\ b.shape = "obj"
         /\ DOMAIN a.map \subseteq DOMAIN b.map
         /\ \A k \in DOMAIN a.map : DeepEqual(a.map[k], b.map[k])
    ELSE a = b

(* C1: with assertions enabled, a non-strict deep_compare of two ordered   *)
(* sequences returns True exactly when they have the same length and       *)
(* deeply equal items, and False otherwise. *)
C1_SequencesCompared ==
    (/\ debug
     /\ Called("deep_compare")
     /\ ~call.assert_tests
     /\ first.shape = "list"
     /\ second.shape = "list")
    => result.out = (IF DeepEqual(first, second) THEN "True" ELSE "False")

(* The options of a deep_compare_dicts call are not mutually exclusive. *)
ValidOptions ==
    /\ ~(call.minimal_key_test /\ ~call.ignore_keys.isNone)
    /\ ~(~call.minimal_key_test /\ ~call.key_names.isNone)

(* The keys the key policy of the call selects for comparison. *)
ComparedKeys ==
    IF call.minimal_key_test
    THEN IF call.key_names.isNone THEN DOMAIN first.map ELSE call.key_names.keys
    ELSE DOMAIN first.map \ call.ignore_keys.keys

KeyPolicyPasses ==
    /\ ValidOptions
    /\ second.shape = "dict"
    /\ IF call.minimal_key_test
       THEN ComparedKeys \subseteq (DOMAIN first.map \cap DOMAIN second.map)
       ELSE DOMAIN first.map \ call.ignore_keys.keys
            = DOMAIN second.map \ call.ignore_keys.keys

UnequalKeys == {k \in ComparedKeys : ~DeepEqual(first.map[k], second.map[k])}

RecordedKeys == {result.mismatches[j].key : j \in DOMAIN result.mismatches}

Failed == result.out = (IF call.assert_tests THEN "AssertionError" ELSE "False")

(* C2: when the key sets pass the key policy, deep_compare_dicts compares  *)
(* every selected key, records a mismatch (key, value1, value2) for        *)
(* exactly the keys whose values are not deeply equal, whatever their      *)
(* shape, and fails if and only if there is such a key.  Stated for values *)
(* that have the same shape under each key, with assertions enabled. *)
C2_MismatchesRecorded ==
    (/\ debug
     /\ Called("deep_compare_dicts")
     /\ KeyPolicyPasses
     /\ \A k \in ComparedKeys : first.map[k].shape = second.map[k].shape)
    => /\ RecordedKeys = UnequalKeys
       /\ \A j \in DOMAIN result.mismatches :
            result.mismatches[j] = Mismatch(result.mismatches[j].key,
                                            first.map[result.mismatches[j].key],
                                            second.map[result.mismatches[j].key])
       /\ result.cmps >= Cardinality(ComparedKeys)
       /\ Failed <=> UnequalKeys # {}
       /\ UnequalKeys = {} => result.out = "True"

(* C3: a call of any entry point with assert_tests=True while assertions   *)
(* are disabled raises ValueError before the operands are inspected or     *)
(* compared, whatever the operands. *)
C3_StrictNeedsAssertions ==
    (call.op # "none" /\ call.assert_tests /\ ~debug)
    => /\ result.out = "ValueError"
       /\ result.work = 0
       /\ result.cmps = 0

C3_Witness ==
    /\ ~debug
    /\ Called("deep_compare_dicts")
    /\ call.assert_tests
    /\ first = second
    /\ result.out = "ValueError"

(* C4: with assertions enabled, a non-strict deep_compare never raises,    *)
(* whatever the shapes of the two operands: it returns a boolean.  Stated  *)
(* for a first operand that is a mapping, a sequence, an object or a       *)
(* scalar. *)
C4_NonStrictReturns ==
    (debug /\ Called("deep_compare") /\ ~call.assert_tests /\ first.shape # "df")
    => Returned

(* C5: deep_compare_dicts without ignore_keys, with assertions enabled:    *)
(* under the exact policy the comparison does not succeed when the key     *)
(* sets differ; under the subset policy it succeeds if and only if every   *)
(* selected key is in both dicts with deeply equal values. *)
C5_KeyPolicy ==
    (/\ debug
     /\ Called("deep_compare_dicts")
     /\ second.shape = "dict"
     /\ ValidOptions
     /\ call.ignore_keys.isNone)
    => IF ~call.minimal_key_test
       THEN DOMAIN first.map # DOMAIN second.map => result.out # "True"
       ELSE result.out = "True"
            <=> \A k \in ComparedKeys :
                    /\ k \in DOMAIN first.map
                    /\ k \in DOMAIN second.map
                    /\ DeepEqual(first.map[k], second.map[k])

(* d without the keys of K (d itself when it is no dict). *)
Strip(d, K) ==
    IF d.shape = "dict" THEN Dct([k \in DOMAIN d.map \ K |-> d.map[k]]) ELSE d

(* C6: under the exact policy a call with ignore_keys gives the outcome of *)
(* the call on the two dicts with every ignored key removed from both. *)
C6_IgnoredKeysRemoved ==
    (/\ Called("deep_compare_dicts")
     /\ ~call.minimal_key_test
     /\ call.key_names.isNone
     /\ ~call.ignore_keys.isNone)
    => result.out = deep_compare_dicts(Strip(first, call.ignore_keys.keys),
                                       Strip(second, call.ignore_keys.keys),
                                       Msg, call.assert_tests,
                                       NoneNames, FALSE, NoneNames).out

C6_Witness ==
    /\ Called("deep_compare_dicts")
    /\ ~call.minimal_key_test
    /\ call.ignore_keys = GivenNames({"b"})
    /\ second.shape = "dict"
    /\ "b" \in DOMAIN first.map
    /\ "b" \in DOMAIN second.map
    /\ first.map["b"] # second.map["b"]
    /\ result.out = "True"

(* C7: deep_compare_dicts called on two dicts with mutually exclusive      *)
(* options raises ValueError, strict or not, whatever the dicts hold. *)
C7_ExclusiveOptionsRaise ==
    (Called("deep_compare_dicts") /\ second.shape = "dict" /\ ~ValidOptions)
    => result.out = "ValueError"

C7_Witness ==
    /\ debug
    /\ Called("deep_compare_dicts")
    /\ ~call.assert_tests
    /\ ~ValidOptions
    /\ second.shape = "dict"
    /\ DOMAIN first.map # DOMAIN second.map
    /\ result.out = "ValueError"

C10_RowOrder ==
    (/\ debug
     /\ Called("compare_dataframes")
     /\ second.shape = "df"
     /\ call.cols.isNone)
    => IF call.ignore_row_order
       THEN /\ (second \in RowPermutations(first) /\ second # first)
               => result.out = "True"
            /\ \A t1 \in RowPermutations(first), t2 \in RowPermutations(second) :
                 compare_dataframes(t1, t2, NoneSeq, Msg, call.ignore_col_order,
                                    TRUE, call.ignore_index,
                                    call.assert_tests).out = result.out
       ELSE result.out = "True" =>
            /\ Len(first.rows) = Len(second.rows)
            /\ \A i \in DOMAIN first.rows :
                 /\ first.rows[i].cells = second.rows[i].cells
                 /\ ~call.ignore_index => first.rows[i].idx = second.rows[i].idx

(* The same call as the one made, on other operands. *)
SameCall(df1, df2) ==
    compare_dataframes(df1, df2, call.cols, Msg, call.ignore_col_order,
                       call.ignore_row_order, call.ignore_index, call.assert_tests)

(* C11: compare_dataframes with ignore_index=True, assertions enabled: two *)
(* tables with rows that the call finds to match also match under any      *)
(* other index (other labels, another name, plain or multi-part) of either *)
(* of them. *)
C11_IndexIgnored ==
    (/\ debug
     /\ Called("compare_dataframes")
     /\ second.shape = "df"
     /\ first.rows # <<>>
     /\ call.ignore_index
     /\ result.out = "True")
    => \A t1 \in Reindexed(first), t2 \in Reindexed(second) :
           SameCall(t1, t2).out = result.out

(* C12: compare_dataframes leaves the caller's two tables as they were     *)
(* passed; stated for the calls without cols that test the column order    *)
(* and find the tables to match, with assertions enabled. *)
C12_OperandsUnchanged ==
    (/\ debug
     /\ Called("compare_dataframes")
     /\ call.cols.isNone
     /\ ~call.ignore_col_order
     /\ first.rows # <<>>
     /\ result.out = "True")
    => held = <<first, second>>

(* Objects whose attributes hold scalars or such objects, a and b with the *)
(* same attributes all the way down. *)
RECURSIVE ObjectsAlike(_, _)
ObjectsAlike(a, b) ==
    IF a.shape = "obj"
    THEN /\ b.shape = "obj"
         /\ DOMAIN a.map = DOMAIN b.map
         /\ \A k \in DOMAIN a.map : ObjectsAlike(a.map[k], b.map[k])
    ELSE a.shape = "scalar" /\ b.shape = "scalar"

(* The attribute names from a down to the first leaf at which b differs,   *)
(* outermost first, the attributes taken in the order they are iterated. *)
RECURSIVE ObjPath(_, _)
ObjPath(a, b) ==
    IF a.shape # "obj" THEN <<>>
    ELSE LET seq == InOrder(DOMAIN a.map, keyOrder)
             differs(j) == ~DeepEqual(a.map[seq[j]], b.map[seq[j]])
             i == CHOOSE j \in DOMAIN seq :
                     differs(j) /\ \A l \in 1..(j - 1) : ~differs(l)
         IN  <<seq[i]>> \o ObjPath(a.map[seq[i]], b.map[seq[i]])

IsName(t) == t \in Names

(* C13: a strict deep_compare, with assertions enabled, of two objects     *)
(* that differ at a leaf under nested attributes raises AssertionError     *)
(* with a path that starts with the caller's msg and holds the attribute   *)
(* names of the chain down to that leaf, outermost first, and no other. *)
C13_AttributeChain ==
    (/\ debug
     /\ Called("deep_compare")
     /\ call.assert_tests
     /\ first.shape = "obj"
     /\ ObjectsAlike(first, second)
     /\ ~DeepEqual(first, second))
    => /\ result.out = "AssertionError"
       /\ Len(result.err) >= Len(Msg)
       /\ SubSeq(result.err, 1, Len(Msg)) = Msg
       /\ SelectSeq(result.err, IsName) = ObjPath(first, second)

C13_Witness ==
    /\ debug
    /\ Called("deep_compare")
    /\ call.assert_tests
    /\ ObjectsAlike(first, second)
    /\ result.out = "AssertionError"
    /\ SelectSeq(result.err, IsName) = <<"a", "b">>

(* Values of the same shape all the way down: the same attributes, keys    *)
(* and lengths. *)
RECURSIVE SameStructure(_, _)
SameStructure(a, b) ==
    /\ a.shape = b.shape
    /\ a.shape \in {"scalar", "list", "dict", "obj"}
    /\ a.shape = "list" =>
          /\ Len(a.items) = Len(b.items)
          /\ \A i \in DOMAIN a.items : SameStructure(a.items[i], b.items[i])
    /\ a.shape \in {"dict", "obj"} =>
          /\ DOMAIN a.map = DOMAIN b.map
          /\ \A k \in DOMAIN a.map : SameStructure(a.map[k], b.map[k])

(* The paths from a to the leaves at which b differs: the attribute names, *)
(* sequence indices and mapping keys traversed, outermost first. *)
RECURSIVE Paths(_, _)
Paths(a, b) ==
    IF a.shape = "list"
    THEN UNION {{<<ToString(i - 1)>> \o p : p \in Paths(a.items[i], b.items[i])} :
                    i \in DOMAIN a.items}
    ELSE IF a.shape \in {"dict", "obj"}
    THEN UNION {{<<k>> \o p : p \in Paths(a.map[k], b.map[k])} : k \in DOMAIN a.map}
    ELSE IF a = b THEN {} ELSE {<<>>}

(* The words of p appear in s, in the order of p. *)
RECURSIVE IsSubseq(_, _)
IsSubseq(p, s) ==
    IF p = <<>> THEN TRUE
    ELSE IF s = <<>> THEN FALSE
    ELSE IF Head(p) = Head(s) THEN IsSubseq(Tail(p), Tail(s))
    ELSE IsSubseq(p, Tail(s))

(* C14: the AssertionError a strict deep_compare raises, with assertions   *)
(* enabled, on two values of the same structure (objects, sequences and    *)
(* mappings nested in any way) that differ at a leaf holds the caller's    *)
(* msg followed by the complete path to a leaf that differs. *)
C14_FullPath ==
    (/\ debug
     /\ Called("deep_compare")
     /\ call.assert_tests
     /\ SameStructure(first, second)
     /\ Paths(first, second) # {}
     /\ result.out = "AssertionError")
    => \E p \in Paths(first, second) : IsSubseq(Msg \o p, result.err)

(* C15: with assertions enabled, deep_compare of a value with itself       *)
(* returns True, strict or not, whatever the shape of the value. *)
C15_Reflexive ==
    (debug /\ Called("deep_compare") /\ second = first)
    => result.out = "True"

(* A length mismatch reported: a False, or an AssertionError that holds    *)
(* both lengths, and no pair of items compared. *)
LengthFailure(r, n1, n2) ==
    /\ r.out \in {"False", "AssertionError"}
    /\ r.out = "AssertionError" => IsSubseq(<<ToString(n1), ToString(n2)>>, r.err)
    /\ r.cmps = 0

(* C16: deep_compare_ordered_collections, once past the guard, on two      *)
(* sequences of different lengths fails with both lengths and before any   *)
(* pair of items is compared, and so does the call with the operands       *)
(* exchanged. *)
C16_LengthMismatch ==
    (/\ Called("deep_compare_ordered_collections")
     /\ GuardPassed
     /\ second.shape = "list"
     /\ Len(first.items) # Len(second.items))
    => /\ LengthFailure(result, Len(first.items), Len(second.items))
       /\ LengthFailure(deep_compare_ordered_collections(second, first, Msg,
                                                         call.assert_tests),
                        Len(second.items), Len(first.items))

(* The attributes deep_compare_objs is to compare. *)
ComparedAttrs ==
    IF call.attr_names.isNone THEN DOMAIN first.map ELSE Range(call.attr_names.seq)

MissingOn(obj) == {a \in ComparedAttrs : ~HasAttr(obj, a)}

(* C17: deep_compare_objs, once past the guard, succeeds exactly when      *)
(* every attribute of attr_names (of the first operand if attr_names is    *)
(* None) is on both operands with deeply equal values, whatever else the   *)
(* second operand has; when the attributes that are on both are equal and  *)
(* one is missing, the strict call raises an error that names the operand  *)
(* and the attribute. *)
C17_NamedAttributes ==
    (Called("deep_compare_objs") /\ GuardPassed)
    => /\ result.out = "True" <=>
            \A a \in ComparedAttrs :
                /\ HasAttr(first, a)
                /\ HasAttr(second, a)
                /\ DeepEqual(first.map[a], second.map[a])
       /\ (/\ call.assert_tests
           /\ MissingOn(first) \cup MissingOn(second) # {}
           /\ \A a \in ComparedAttrs \ (MissingOn(first) \cup MissingOn(second)) :
                   DeepEqual(first.map[a], second.map[a]))
          => /\ result.out = "AssertionError"
             /\ \/ \E a \in MissingOn(first) : IsSubseq(<<"obj1", a>>, result.err)
                \/ \E a \in MissingOn(second) \ MissingOn(first) :
                       IsSubseq(<<"obj2", a>>, result.err)

(* C18: a non-strict call on an object with an attribute or a sequence     *)
(* with an item, and a second operand of the same kind, does not raise the *)
(* strict-without-assertions error, with assertions enabled or disabled. *)
C18_OuterModeDecides ==
    (/\ call.op \in {"deep_compare", "deep_compare_objs",
                     "deep_compare_ordered_collections"}
     /\ ~call.assert_tests
     /\ first.shape \in {"obj", "list"}
     /\ second.shape = first.shape
     /\ first.shape = "obj" => DOMAIN first.map # {} /\ DOMAIN first.map = DOMAIN second.map
     /\ first.shape = "list" => first.items # <<>> /\ Len(first.items) = Len(second.items))
    => result.err # OptimizedError.err

(* The last call was one of the decorated function, made while            *)
(* notifications were enabled with no override pending. *)
NotifiedCall ==
    /\ sres.op = "wrapper_notify"
    /\ sres.was
    /\ sres.flagWas = "None"

(* C19: one call of a function decorated with on_entrance or on_exit (or   *)
(* both) and raise_on_http_error False, made while notifications are       *)
(* enabled with the environment variable set, makes one post if            *)
(* on_entrance plus one post if on_exit. *)
C19_PostsPerCall ==
    (/\ NotifiedCall
     /\ envUrl # "None"
     /\ sres.args.on_entrance \/ sres.args.on_exit
     /\ ~sres.args.raise_on_http_error)
    => Len(sres.sent) = (IF sres.args.on_entrance THEN 1 ELSE 0)
                        + (IF sres.args.on_exit THEN 1 ELSE 0)

(* C20: every post of a call of a function decorated with webhook_url=U    *)
(* goes to U, and with webhook_url=None to the URL of the environment      *)
(* variable. *)
C20_PostsToUrl ==
    (NotifiedCall /\ envUrl # "None")
    => \A i \in DOMAIN sres.sent :
           sres.sent[i].url = IF sres.args.webhook_url # "None"
                              THEN sres.args.webhook_url
                              ELSE envUrl

(* C21: slack_set_enabled overrides the global enabled state for the next  *)
(* call of the decorated function: with a URL to post to, a call made      *)
(* while notifications are disabled after slack_set_enabled(True) posts    *)
(* its notifications, and a call made while they are enabled after         *)
(* slack_set_enabled(False) posts none. *)
C21_OverrideNextCall ==
    (/\ sres.op = "wrapper_notify"
     /\ envUrl # "None"
     /\ sres.args.on_entrance
     /\ sres.args.on_exit)
    => /\ (~sres.was /\ sres.flagWas = "True") => sres.sent # <<>>
       /\ (sres.was /\ sres.flagWas = "False") => sres.sent = <<>>

(* C22: while notifications are enabled, webhook(url, text=t,              *)
(* attachments=a) with t or a not None makes exactly one post to url whose *)
(* body has the field "text" iff t is not None and the field               *)
(* "attachments" iff a is not None. *)
C22_WebhookFields ==
    (/\ sres.op = "webhook"
     /\ sres.was
     /\ sres.args.payload.isNone
     /\ ~sres.args.text.isNone \/ sres.args.attachments)
    => /\ sres.out # "SlackNotifyError"
       /\ Len(sres.sent) = 1
       /\ sres.sent[1].url = "U"
       /\ sres.sent[1].fields = (IF sres.args.text.isNone THEN {} ELSE {"text"})
                                \cup (IF sres.args.attachments THEN {"attachments"} ELSE {})

(* The operations the context manager made on the session of a use. *)
Managed(u) == SelectSeq(u.ops, LAMBDA op : op # "execute")

(* What made the use leave the try block: "None" if the body and the       *)
(* commit finished normally. *)
Cause(u) ==
    IF u.raised # <<>> /\ Head(u.raised) \in {"body", "commit"}
    THEN Head(u.raised)
    ELSE "None"

(* C23: in every use of session_scoped, close is made last and once; a use *)
(* whose body finishes normally commits once and then closes, with no      *)
(* rollback; a use whose body or commit raises rolls back, then closes,    *)
(* and an exception reaches the caller: the one of the body or the commit  *)
(* unless the rollback or the close raised after it. *)
C23_SessionScoped ==
    \A i \in 1..MaxUses :
        LET u == sessions[i]
            closes == {k \in DOMAIN u.ops : u.ops[k] = "close"}
        IN  /\ closes \subseteq {Len(u.ops)}
            /\ u.pc = "done" =>
                /\ closes = {Len(u.ops)}
                /\ Cause(u) = "None" => Managed(u) = <<"commit", "close">>
                /\ Cause(u) = "body" =>
                    /\ Managed(u) = <<"rollback", "close">>
                    /\ u.pending # "None"
                    /\ Len(u.raised) = 1 => u.pending = "body"
                /\ Cause(u) = "commit" =>
                    /\ Managed(u) = <<"commit", "rollback", "close">>
                    /\ u.pending # "None"
                    /\ Len(u.raised) = 1 => u.pending = "commit"

(* One use is done after its commit raised, another after a normal body. *)
C23_Witness ==
    \E i, j \in 1..MaxUses :
        /\ sessions[i].pc = "done"
        /\ sessions[i].raised = <<"commit">>
        /\ sessions[i].ops = <<"execute", "commit", "rollback", "close">>
        /\ sessions[j].pc = "done"
        /\ sessions[j].raised = <<>>
        /\ sessions[j].ops = <<"execute", "commit", "close">>

(* C24: the slack_set_enabled override is consumed by a single call: after *)
(* a call of the decorated function, returning or raising, the flag is     *)
(* None; a call that directly follows another call finds the flag None;    *)
(* and a call that finds the flag None follows the global enabled state    *)
(* (it builds and sends messages iff notifications are enabled). *)
C24_OverrideConsumed ==
    /\ [](sres.op = "wrapper_notify" =>
            /\ flag = "None"
            /\ sres.flagWas = "None" =>
                /\ ~sres.was => sres.stages = <<>> /\ sres.sent = <<>>
                /\ sres.was => sres.stages # <<>>)
    /\ [][(sres.op = "wrapper_notify" /\ sres'.op = "wrapper_notify")
          => sres'.flagWas = "None"]_vars

(* A call made with the override False while notifications are enabled     *)
(* raised, posted nothing and left the flag None. *)
C24_Witness ==
    /\ sres.op = "wrapper_notify"
    /\ sres.flagWas = "False"
    /\ sres.was
    /\ sres.out = "raised"
    /\ sres.sent = <<>>
    /\ flag = "None"

(* C25: send_slack called while enabled with no webhook_url and the        *)
(* environment variable unset posts nothing and leaves notifications       *)
(* disabled; while they are disabled no send_slack or webhook call posts,  *)
(* whatever URL it is given; and only enable() enables them again. *)
C25_NoUrlDisables ==
    /\ []((/\ sres.op = "send_slack"
           /\ sres.was
           /\ sres.args.webhook_url = "None"
           /\ envUrl = "None")
          => sres.sent = <<>> /\ ~enabled)
    /\ []((sres.op \in {"send_slack", "webhook"} /\ ~sres.was) => sres.sent = <<>>)
    /\ [][(~enabled /\ enabled') => sres'.op = "enable"]_vars

(* send_slack was called while enabled with no URL to post to: it posted   *)
(* nothing and notifications are disabled. *)
C25_Witness ==
    /\ sres.op = "send_slack"
    /\ sres.was
    /\ sres.args.webhook_url = "None"
    /\ envUrl = "None"
    /\ sres.sent = <<>>
    /\ ~enabled

(* C26: webhook called while enabled with a non-empty payload and a text   *)
(* or attachments that is not None raises SlackNotifyError and posts       *)
(* nothing. *)
C26_PayloadExclusive ==
    (/\ sres.op = "webhook"
     /\ sres.was
     /\ ~sres.args.payload.isNone
     /\ sres.args.payload.fields # {}
     /\ ~sres.args.text.isNone \/ sres.args.attachments)
    => sres.out = "SlackNotifyError" /\ sres.sent = <<>>

C28_OptimizedScalars ==
    (/\ Called("deep_compare")
     /\ ~debug
     /\ ~call.assert_tests
     /\ first.shape = "scalar"
     /\ second.shape = "scalar"
     /\ first # second)
    => result.out = "False"

(* The first operand is an instance with no attribute. *)
EmptyObject == first = Obj(NoMap)

(* C29 as stated: deep_compare of an instance with no attribute and any    *)
(* second operand returns True. *)
C29_EmptyObject ==
    (Called("deep_compare") /\ EmptyObject) => result.out = "True"

(* C29 amended: deep_compare of an instance with no attribute and any      *)
(* second operand returns True unless the call is strict with assertions   *)
(* disabled, which raises ValueError. *)
C29_EmptyObjectGuarded ==
    (Called("deep_compare") /\ EmptyObject)
    => IF GuardPassed THEN result.out = "True" ELSE result.out = "ValueError"

(* An instance with no attribute was compared with one that has some and   *)
(* found equal. *)
C29_Witness ==
    /\ Called("deep_compare")
    /\ EmptyObject
    /\ GuardPassed
    /\ second.shape = "obj"
    /\ DOMAIN second.map = {"a", "b"}
    /\ result.out = "True"

(* C30: a call of a function decorated with webhook_url=U and on_exit      *)
(* True, made while notifications are enabled, leaves them enabled. *)
C30_EnabledKept ==
    (/\ sres.op = "wrapper_notify"
     /\ sres.args.webhook_url = "U"
     /\ sres.args.on_entrance
     /\ sres.args.on_exit
     /\ sres.was
     /\ sres.flagWas = "None")
    => enabled

====
